---- MODULE Spec2Model ----
(***************************************************************************)
(* varsig: the envelope codec (create / inspectVarsig / verify) of         *)
(* src/src/index.js, the constants of constants.js, the registry of        *)
(* crypto/implementations.js and the capability objects of crypto/*.js.    *)
(* Bytes are integers 0..255, buffers are sequences of bytes, offsets are  *)
(* 0-based as in the source (buf[o] of the source is buf[o + 1] here).     *)
(***************************************************************************)
EXTENDS Integers, Sequences, FiniteSets, TLC

VARIABLES
    payload,               \* payload handed to the last create call
    cryptoImplementation,  \* implementation handed to the last create call
    privateKey,            \* private key handed to the last create call
    signature,             \* what sign returned in the last create call
    enc,                   \* the field encodings computed by the last create call
    varsig,                \* the buffer the caller currently holds
    truncated,             \* the caller cut the tail of the buffer
    edits,                 \* bytes of the buffer the caller overwrote
    trailing,              \* bytes the caller appended to the buffer
    replaced,              \* header field the caller re-encoded, or "none"
    res,                   \* outcome of the last API call or CLI command
    vr,                    \* a number, its encodeVarint bytes and their decoding
    calls,                 \* the create / verify calls in flight, by call id
    lastStarted            \* id of the call that was entered last, 0 before any

vars == <<payload, cryptoImplementation, privateKey, signature, enc, varsig,
          truncated, edits, trailing, replaced, res, vr, calls, lastStarted>>

----------------------------------------------------------------------------
(* Bounds of the model *)

\* bytes a caller may overwrite in a buffer before handing it to the decoder
MaxEdits == 1
\* bytes a caller may append after the envelope
MaxTrailing == 1
\* a cut keeps at most this many leading bytes ...
MaxKeep == 8
\* ... or drops at most this many trailing bytes
MaxDrop == 1
\* length of the signatures of the caller-supplied implementation
CustomSigLen == 3

\* create / verify calls that can be in flight at once
NumCalls == 2
\* encodeVarint is tried on every number up to this one ...
MaxVarintInput == 300
\* ... and on the tags of constants.js and the numbers where the encoding
\* grows by a byte
VarintBoundaries ==
    {0, 18, 95, 127, 128, 237, 4613, 4873, 16383, 16384, 2097151, 2097152}
VarintInputs == (0..MaxVarintInput) \cup VarintBoundaries

Payloads == { <<104, 105>>, <<104, 111>> }
KeyIds == {1, 2}
\* values a caller writes over a byte: zero, an unregistered one-byte value,
\* and a byte with the continuation bit set
EditBytes == {0, 19, 128}
TrailBytes == {0, 255}
\* values a caller re-encodes a header field with: one and two bytes long
ReplacementValues == {0, 19, 128, 300}

----------------------------------------------------------------------------
(* constants.js *)

VARSIG_PREFIX == <<52>>          \* Uint8Array.of(0x34)
HASH_ALGO_SHA256 == 18           \* 0x12
ENCODING_INFO == 95              \* 0x5f

TAG_ED25519 == 237               \* 0xed
TAG_RSA == 4613                  \* 0x1205
TAG_BLS == 4873                  \* 0x1309

\* Object.entries order is insertion order
SIGNATURE_HEADER_TAGS ==
    << <<"ed25519", TAG_ED25519>>, <<"rsa", TAG_RSA>>, <<"bls", TAG_BLS>> >>

----------------------------------------------------------------------------
(* Hex formatting: Number.prototype.toString(16) and uint8arrays toString(_, 'hex') *)

HexDigits == <<"0", "1", "2", "3", "4", "5", "6", "7",
               "8", "9", "a", "b", "c", "d", "e", "f">>

\* A decoded number is held as the 7-bit groups it was read from, low group
\* first, so that a value beyond 2^31 is formatted and compared exactly (the
\* source holds it in a double, exact below 2^53, that is up to 7 groups).
GroupBits(g) == [k \in 1..7 |-> (g \div (2 ^ (k - 1))) % 2]

RECURSIVE BitsOf(_)
BitsOf(groups) ==
    IF groups = <<>> THEN <<>> ELSE GroupBits(Head(groups)) \o BitsOf(Tail(groups))

BitAt(bits, k) == IF k <= Len(bits) THEN bits[k] ELSE 0

\* the j-th hex digit, j = 0 for the lowest
Nibble(bits, j) ==
    BitAt(bits, 4 * j + 1) + 2 * BitAt(bits, 4 * j + 2)
    + 4 * BitAt(bits, 4 * j + 3) + 8 * BitAt(bits, 4 * j + 4)

\* digits j, j-1, .., 0; leading zeros are skipped while started is FALSE
RECURSIVE HexFrom(_, _, _)
HexFrom(bits, j, started) ==
    LET d == Nibble(bits, j)
    IN  IF j = 0 THEN HexDigits[d + 1]
        ELSE IF d = 0 /\ ~started THEN HexFrom(bits, j - 1, FALSE)
        ELSE HexDigits[d + 1] \o HexFrom(bits, j - 1, TRUE)

\* Number.prototype.toString(16)
NumberToString16(groups) ==
    LET bits == BitsOf(groups)
    IN  HexFrom(bits, (Len(bits) + 3) \div 4, FALSE)

RECURSIVE toStringHex(_)
toStringHex(bytes) ==
    IF bytes = <<>> THEN ""
    ELSE HexDigits[(Head(bytes) \div 16) + 1] \o HexDigits[(Head(bytes) % 16) + 1]
         \o toStringHex(Tail(bytes))

----------------------------------------------------------------------------
(* Uint8Array helpers *)

Min(a, b) == IF a < b THEN a ELSE b

\* Uint8Array.prototype.slice(start, end) / subarray(start, end): both ends
\* are clamped to the length of the array
Slice(buf, start, end) ==
    LET s == Min(start, Len(buf))
        e == Min(end, Len(buf))
    IN  IF e <= s THEN <<>> ELSE SubSeq(buf, s + 1, e)

Subarray(buf, start) == Slice(buf, start, Len(buf))

\* new Uint8Array(n): n zero bytes
Zeroes(n) == [i \in 1..n |-> 0]

\* Uint8Array.prototype.set(bytes, offset)
SetAt(buf, bytes, offset) ==
    [i \in 1..Len(buf) |->
        IF i > offset /\ i <= offset + Len(bytes) THEN bytes[i - offset] ELSE buf[i]]

----------------------------------------------------------------------------
(* multiformats varint, as called by encodeVarint / decodeVarintAt *)

Pow2(k) == 2 ^ k

\* varint.encodingLength: 1 byte per started group of 7 bits
RECURSIVE EncodingLength(_)
EncodingLength(value) ==
    IF value < 128 THEN 1 ELSE 1 + EncodingLength(value \div 128)

\* an encoder that shifts by a whole byte between groups
RECURSIVE EncodeGroupsByByte(_)
EncodeGroupsByByte(num) ==
    IF num < 128 THEN <<num>>
    ELSE <<(num % 128) + 128>> \o EncodeGroupsByByte(num \div 256)

\* varint.encodeTo: low 7 bits first, 0x80 set on every byte but the last
RECURSIVE EncodeGroups(_)
EncodeGroups(num) ==
    IF num < 128 THEN <<num>>
    ELSE <<(num % 128) + 128>> \o EncodeGroups(num \div 128)

\* an encoder that gives every value below 256 a single byte
encodeVarintWide(code) ==
    IF code < 256 THEN <<code>> ELSE EncodeGroups(code)

encodeVarint(code) ==
    LET len == EncodingLength(code)
        bytes == Zeroes(len)
    IN  SetAt(bytes, EncodeGroups(code), 0)

\* the number a sequence of groups stands for; a number of 2^30 or more is
\* given as 2^30, which is more than any tag and any buffer length
Saturated == Pow2(30)

RECURSIVE GroupsValue(_)
GroupsValue(groups) ==
    IF groups = <<>> THEN 0
    ELSE LET rest == GroupsValue(Tail(groups))
         IN  IF rest >= Pow2(23) THEN Saturated
             ELSE Min(Head(groups) + 128 * rest, Saturated)

\* varint.decode(buf): reads groups of 7 bits until a byte without the
\* continuation bit; throws RangeError('Could not decode varint') when the
\* buffer ends first
RECURSIVE VarintRead(_, _, _)
VarintRead(buf, counter, groups) ==
    IF counter >= Len(buf)
    THEN [ok |-> FALSE, groups |-> <<>>, length |-> 0]
    ELSE LET b == buf[counter + 1]
             groups2 == Append(groups, b % 128)
         IN  IF b >= 128
             THEN VarintRead(buf, counter + 1, groups2)
             ELSE [ok |-> TRUE, groups |-> groups2, length |-> counter + 1]

\* a decoder that advances the cursor by one byte whatever it consumed
decodeVarintAtOneByte(buffer, offset) ==
    LET r == VarintRead(Subarray(buffer, offset), 0, <<>>)
    IN  [ok |-> r.ok, value |-> GroupsValue(r.groups), groups |-> r.groups,
         length |-> r.length, nextOffset |-> offset + (IF r.ok THEN 1 ELSE 0)]

\* a decoder without the bounds check: the byte after the end reads as zero
decodeVarintAtPadded(buffer, offset) ==
    LET r == VarintRead(Append(Subarray(buffer, offset), 0), 0, <<>>)
    IN  [ok |-> r.ok, value |-> GroupsValue(r.groups), groups |-> r.groups,
         length |-> r.length, nextOffset |-> offset + r.length]

decodeVarintAt(buffer, offset) ==
    LET r == VarintRead(Subarray(buffer, offset), 0, <<>>)
    IN  [ok |-> r.ok, value |-> GroupsValue(r.groups), groups |-> r.groups,
         length |-> r.length, nextOffset |-> offset + r.length]

----------------------------------------------------------------------------
(* crypto/ed25519.js, crypto/rsa.js, crypto/bls.js and a caller-supplied     *)
(* implementation (README, "Example CryptoImplementation").  The field name  *)
(* identifies the capability object; it is not a property of the JS object.  *)

ed25519Implementation ==
    [name |-> "ed25519", signatureHeader |-> TAG_ED25519,
     hashAlgorithm |-> HASH_ALGO_SHA256]
rsaImplementation ==
    [name |-> "rsa", signatureHeader |-> TAG_RSA,
     hashAlgorithm |-> HASH_ALGO_SHA256]
blsImplementation ==
    [name |-> "bls", signatureHeader |-> TAG_BLS,
     hashAlgorithm |-> HASH_ALGO_SHA256]
\* getSignatureHeader: () => 0x01, getHashAlgorithm: () => 0x02
customImplementation ==
    [name |-> "custom", signatureHeader |-> 1, hashAlgorithm |-> 2]

BuiltIns == {ed25519Implementation, rsaImplementation, blsImplementation}
Implementations == BuiltIns \cup {customImplementation}

getSignatureHeader(impl) == impl.signatureHeader
getHashAlgorithm(impl) == impl.hashAlgorithm

\* a registry with the rsa and bls implementations under each other's name
cryptoAlgorithmsSwapped ==
    [n \in {"ed25519", "rsa", "bls"} |->
        CASE n = "ed25519" -> ed25519Implementation
          [] n = "rsa" -> blsImplementation
          [] n = "bls" -> rsaImplementation]

\* crypto/implementations.js
cryptoAlgorithms ==
    [n \in {"ed25519", "rsa", "bls"} |->
        CASE n = "ed25519" -> ed25519Implementation
          [] n = "rsa" -> rsaImplementation
          [] n = "bls" -> blsImplementation]

\* raw signature lengths of the three schemes (test/index.test.js)
Ed25519SigLen == 64
BlsSigLen == 96
RsaSigLen == 256

SigLen(impl) ==
    CASE impl.name = "ed25519" -> Ed25519SigLen
      [] impl.name = "bls" -> BlsSigLen
      [] impl.name = "rsa" -> RsaSigLen
      [] OTHER -> CustomSigLen

AlgIndex(impl) ==
    CASE impl.name = "ed25519" -> 0
      [] impl.name = "rsa" -> 1
      [] impl.name = "bls" -> 2
      [] OTHER -> 3

\* generateKey: the public key that belongs to a private key
PublicKeyOf(sk) == [pub |-> sk]
PublicKeys == {PublicKeyOf(k) : k \in KeyIds}

RECURSIVE Digest(_)
Digest(p) == IF p = <<>> THEN 0 ELSE (Head(p) + Digest(Tail(p))) % 64

\* sign, as an ideal deterministic scheme: the signature is a function of
\* (scheme, payload, key), different for different arguments, of the scheme's
\* length, with bytes below and above 0x80
Sign(impl, p, sk) ==
    LET seed == Digest(p) + 31 * sk + 7 * AlgIndex(impl)
    IN  [i \in 1..SigLen(impl) |->
            IF i % 2 = 1 THEN (seed + i) % 128 ELSE 128 + ((seed + i) % 128)]

Genuine(impl, sig) ==
    \E p \in Payloads, k \in KeyIds : sig = Sign(impl, p, k)

IdealVerify(impl, p, sig, pk) ==
    /\ Len(sig) = SigLen(impl)
    /\ \E k \in KeyIds : PublicKeyOf(k) = pk /\ sig = Sign(impl, p, k)

Returned(b) == [threw |-> FALSE, value |-> b]
Threw == [threw |-> TRUE, value |-> FALSE]

\* ED25519.verify(signature, payload, publicKey): noble rejects a signature
\* that is not 64 bytes long with an exception, and answers a boolean otherwise
ed25519Verify(p, sig, pk) ==
    IF Len(sig) # Ed25519SigLen THEN Threw
    ELSE Returned(IdealVerify(ed25519Implementation, p, sig, pk))

\* crypto.subtle.verify: a boolean for every signature
rsaVerify(p, sig, pk) == Returned(IdealVerify(rsaImplementation, p, sig, pk))

\* bls.Signature.fromHex(signature) parses the bytes into a curve point first
\* and throws when they are neither 96 (compressed) nor 192 (uncompressed)
\* bytes or are not a point of the group; whether bytes of such a length that
\* no signer produced are a point is the input pointOk
blsVerify(p, sig, pk, pointOk) ==
    IF Len(sig) \notin {BlsSigLen, 2 * BlsSigLen} THEN Threw
    ELSE IF ~Genuine(blsImplementation, sig) /\ ~pointOk THEN Threw
    ELSE Returned(IdealVerify(blsImplementation, p, sig, pk))

customVerify(p, sig, pk) ==
    Returned(IdealVerify(customImplementation, p, sig, pk))

\* impl.verify(payload, signature, publicKey)
CapVerify(impl, p, sig, pk, pointOk) ==
    CASE impl.name = "ed25519" -> ed25519Verify(p, sig, pk)
      [] impl.name = "rsa" -> rsaVerify(p, sig, pk)
      [] impl.name = "bls" -> blsVerify(p, sig, pk, pointOk)
      [] OTHER -> customVerify(p, sig, pk)

----------------------------------------------------------------------------
(* src/index.js: create *)

\* create with the cursor not advanced past the hash-algorithm field
createNoHashOffset(p, impl, sk) ==
    LET prefix == VARSIG_PREFIX
        signatureHeaderBytes == encodeVarint(getSignatureHeader(impl))
        hashAlgorithmBytes == encodeVarint(getHashAlgorithm(impl))
        sig == Sign(impl, p, sk)
        signatureLengthBytes == encodeVarint(Len(sig))
        encodingInfoBytes == encodeVarint(ENCODING_INFO)
        totalLength == Len(prefix) + Len(signatureHeaderBytes)
                       + Len(hashAlgorithmBytes) + Len(signatureLengthBytes)
                       + Len(encodingInfoBytes) + Len(sig)
        v0 == Zeroes(totalLength)
        o0 == 0
        v1 == SetAt(v0, prefix, o0)
        o1 == o0 + Len(prefix)
        v2 == SetAt(v1, signatureHeaderBytes, o1)
        o2 == o1 + Len(signatureHeaderBytes)
        v3 == SetAt(v2, hashAlgorithmBytes, o2)
        o3 == o2
        v4 == SetAt(v3, signatureLengthBytes, o3)
        o4 == o3 + Len(signatureLengthBytes)
        v5 == SetAt(v4, encodingInfoBytes, o4)
        o5 == o4 + Len(encodingInfoBytes)
        v6 == SetAt(v5, sig, o5)
    IN  [varsig |-> v6,
         signature |-> sig,
         signatureHeaderBytes |-> signatureHeaderBytes,
         hashAlgorithmBytes |-> hashAlgorithmBytes,
         signatureLengthBytes |-> signatureLengthBytes,
         encodingInfoBytes |-> encodingInfoBytes]

\* the value is the returned varsig together with the locals of the call
create(p, impl, sk) ==
    LET prefix == VARSIG_PREFIX
        signatureHeaderBytes == encodeVarint(getSignatureHeader(impl))
        hashAlgorithmBytes == encodeVarint(getHashAlgorithm(impl))
        sig == Sign(impl, p, sk)
        signatureLengthBytes == encodeVarint(Len(sig))
        encodingInfoBytes == encodeVarint(ENCODING_INFO)
        totalLength == Len(prefix) + Len(signatureHeaderBytes)
                       + Len(hashAlgorithmBytes) + Len(signatureLengthBytes)
                       + Len(encodingInfoBytes) + Len(sig)
        v0 == Zeroes(totalLength)
        o0 == 0
        v1 == SetAt(v0, prefix, o0)
        o1 == o0 + Len(prefix)
        v2 == SetAt(v1, signatureHeaderBytes, o1)
        o2 == o1 + Len(signatureHeaderBytes)
        v3 == SetAt(v2, hashAlgorithmBytes, o2)
        o3 == o2 + Len(hashAlgorithmBytes)
        v4 == SetAt(v3, signatureLengthBytes, o3)
        o4 == o3 + Len(signatureLengthBytes)
        v5 == SetAt(v4, encodingInfoBytes, o4)
        o5 == o4 + Len(encodingInfoBytes)
        v6 == SetAt(v5, sig, o5)
    IN  [varsig |-> v6,
         signature |-> sig,
         signatureHeaderBytes |-> signatureHeaderBytes,
         hashAlgorithmBytes |-> hashAlgorithmBytes,
         signatureLengthBytes |-> signatureLengthBytes,
         encodingInfoBytes |-> encodingInfoBytes]

----------------------------------------------------------------------------
(* src/index.js: inspectVarsig *)

Undefined == "<undefined>"

RangeErrorVarint == "RangeError: Could not decode varint"
UnknownHeaderError == "Error: Unknown signature header code"
TypeErrorUndefined == "TypeError: Cannot read properties of undefined"

\* a lookup that takes the first entry whose tag does not exceed the code
FindTagAtMost(code) ==
    LET hits == {i \in 1..Len(SIGNATURE_HEADER_TAGS) :
                    SIGNATURE_HEADER_TAGS[i][2] <= code}
    IN  IF hits = {} THEN Undefined
        ELSE SIGNATURE_HEADER_TAGS[CHOOSE i \in hits : \A j \in hits : i <= j][1]

\* a lookup that falls back to the first registered algorithm
FindTagOrDefault(code) ==
    LET hits == {i \in 1..Len(SIGNATURE_HEADER_TAGS) :
                    SIGNATURE_HEADER_TAGS[i][2] = code}
    IN  IF hits = {} THEN SIGNATURE_HEADER_TAGS[1][1]
        ELSE SIGNATURE_HEADER_TAGS[CHOOSE i \in hits : \A j \in hits : i <= j][1]

\* Object.entries(SIGNATURE_HEADER_TAGS).find(([algo, code]) => code === c)?.[0]
FindTag(code) ==
    LET hits == {i \in 1..Len(SIGNATURE_HEADER_TAGS) :
                    SIGNATURE_HEADER_TAGS[i][2] = code}
    IN  IF hits = {} THEN Undefined
        ELSE SIGNATURE_HEADER_TAGS[CHOOSE i \in hits : \A j \in hits : i <= j][1]

NoRecord ==
    [threw |-> FALSE, error |-> "", decodes |-> 0, prefix |-> "",
     signatureHeader |-> "", hashAlgorithm |-> "", signatureByteLength |-> "",
     encodingInfo |-> "", signature |-> <<>>, algorithm |-> "",
     totalLength |-> 0]

\* a throw after n calls of decodeVarintAt
InspectThrow(err, n) == [NoRecord EXCEPT !.threw = TRUE, !.error = err, !.decodes = n]

\* a decoder that takes everything after the encodingInfo field as signature
inspectVarsigSliceToEnd(buf) ==
    LET prefixLength == Len(VARSIG_PREFIX)
        prefix == Slice(buf, 0, prefixLength)
        h == decodeVarintAt(buf, prefixLength)
        signatureHeaderMatched == FindTag(h.value)
        ha == decodeVarintAt(buf, h.nextOffset)
        sl == decodeVarintAt(buf, ha.nextOffset)
        signatureLengthBytes == Slice(buf, ha.nextOffset, ha.nextOffset + sl.length)
        ei == decodeVarintAt(buf, sl.nextOffset)
        signatureStart == ei.nextOffset
        signatureEnd == signatureStart + sl.value
        sig == Subarray(buf, signatureStart)
    IN  IF ~h.ok THEN InspectThrow(RangeErrorVarint, 1)
        ELSE IF signatureHeaderMatched = Undefined
        THEN InspectThrow(UnknownHeaderError, 1)
        ELSE IF ~ha.ok THEN InspectThrow(RangeErrorVarint, 2)
        ELSE IF ~sl.ok THEN InspectThrow(RangeErrorVarint, 3)
        ELSE IF ~ei.ok THEN InspectThrow(RangeErrorVarint, 4)
        ELSE [threw |-> FALSE, error |-> "", decodes |-> 4,
              prefix |-> toStringHex(prefix),
              signatureHeader |-> NumberToString16(h.groups),
              hashAlgorithm |-> NumberToString16(ha.groups),
              signatureByteLength |-> toStringHex(signatureLengthBytes),
              encodingInfo |-> NumberToString16(ei.groups),
              signature |-> sig,
              algorithm |-> signatureHeaderMatched,
              totalLength |-> Len(buf)]

\* a decoder that insists on the hash and encoding tags create writes
inspectVarsigChecked(buf) ==
    LET prefixLength == Len(VARSIG_PREFIX)
        prefix == Slice(buf, 0, prefixLength)
        h == decodeVarintAt(buf, prefixLength)
        signatureHeaderMatched == FindTag(h.value)
        ha == decodeVarintAt(buf, h.nextOffset)
        sl == decodeVarintAt(buf, ha.nextOffset)
        signatureLengthBytes == Slice(buf, ha.nextOffset, ha.nextOffset + sl.length)
        ei == decodeVarintAt(buf, sl.nextOffset)
        signatureStart == ei.nextOffset
        signatureEnd == signatureStart + sl.value
        sig == Slice(buf, signatureStart, signatureEnd)
    IN  IF ~h.ok THEN InspectThrow(RangeErrorVarint, 1)
        ELSE IF signatureHeaderMatched = Undefined
        THEN InspectThrow(UnknownHeaderError, 1)
        ELSE IF ~ha.ok THEN InspectThrow(RangeErrorVarint, 2)
        ELSE IF ~sl.ok THEN InspectThrow(RangeErrorVarint, 3)
        ELSE IF ~ei.ok THEN InspectThrow(RangeErrorVarint, 4)
        ELSE IF ha.value # HASH_ALGO_SHA256 \/ ei.value # ENCODING_INFO
        THEN InspectThrow(UnknownHeaderError, 4)
        ELSE [threw |-> FALSE, error |-> "", decodes |-> 4,
              prefix |-> toStringHex(prefix),
              signatureHeader |-> NumberToString16(h.groups),
              hashAlgorithm |-> NumberToString16(ha.groups),
              signatureByteLength |-> toStringHex(signatureLengthBytes),
              encodingInfo |-> NumberToString16(ei.groups),
              signature |-> sig,
              algorithm |-> signatureHeaderMatched,
              totalLength |-> Len(buf)]

\* inspectVarsig with the signature sliced by the byte-length of the length
\* field instead of its value
inspectVarsigLenConfused(buf) ==
    LET prefixLength == Len(VARSIG_PREFIX)
        prefix == Slice(buf, 0, prefixLength)
        h == decodeVarintAt(buf, prefixLength)
        signatureHeaderMatched == FindTag(h.value)
        ha == decodeVarintAt(buf, h.nextOffset)
        sl == decodeVarintAt(buf, ha.nextOffset)
        signatureLengthBytes == Slice(buf, ha.nextOffset, ha.nextOffset + sl.length)
        ei == decodeVarintAt(buf, sl.nextOffset)
        signatureStart == ei.nextOffset
        signatureEnd == signatureStart + sl.length
        sig == Slice(buf, signatureStart, signatureEnd)
    IN  IF ~h.ok THEN InspectThrow(RangeErrorVarint, 1)
        ELSE IF signatureHeaderMatched = Undefined
        THEN InspectThrow(UnknownHeaderError, 1)
        ELSE IF ~ha.ok THEN InspectThrow(RangeErrorVarint, 2)
        ELSE IF ~sl.ok THEN InspectThrow(RangeErrorVarint, 3)
        ELSE IF ~ei.ok THEN InspectThrow(RangeErrorVarint, 4)
        ELSE [threw |-> FALSE, error |-> "", decodes |-> 4,
              prefix |-> toStringHex(prefix),
              signatureHeader |-> NumberToString16(h.groups),
              hashAlgorithm |-> NumberToString16(ha.groups),
              signatureByteLength |-> toStringHex(signatureLengthBytes),
              encodingInfo |-> NumberToString16(ei.groups),
              signature |-> sig,
              algorithm |-> signatureHeaderMatched,
              totalLength |-> Len(buf)]

\* the returned record, or the exception; decodes counts the calls of
\* decodeVarintAt the run made
inspectVarsig(buf) ==
    LET prefixLength == Len(VARSIG_PREFIX)
        prefix == Slice(buf, 0, prefixLength)
        h == decodeVarintAt(buf, prefixLength)
        signatureHeaderMatched == FindTag(h.value)
        ha == decodeVarintAt(buf, h.nextOffset)
        sl == decodeVarintAt(buf, ha.nextOffset)
        signatureLengthBytes == Slice(buf, ha.nextOffset, ha.nextOffset + sl.length)
        ei == decodeVarintAt(buf, sl.nextOffset)
        signatureStart == ei.nextOffset
        signatureEnd == signatureStart + sl.value
        sig == Slice(buf, signatureStart, signatureEnd)
    IN  IF ~h.ok THEN InspectThrow(RangeErrorVarint, 1)
        ELSE IF signatureHeaderMatched = Undefined
        THEN InspectThrow(UnknownHeaderError, 1)
        ELSE IF ~ha.ok THEN InspectThrow(RangeErrorVarint, 2)
        ELSE IF ~sl.ok THEN InspectThrow(RangeErrorVarint, 3)
        ELSE IF ~ei.ok THEN InspectThrow(RangeErrorVarint, 4)
        ELSE [threw |-> FALSE, error |-> "", decodes |-> 4,
              prefix |-> toStringHex(prefix),
              signatureHeader |-> NumberToString16(h.groups),
              hashAlgorithm |-> NumberToString16(ha.groups),
              signatureByteLength |-> toStringHex(signatureLengthBytes),
              encodingInfo |-> NumberToString16(ei.groups),
              signature |-> sig,
              algorithm |-> signatureHeaderMatched,
              totalLength |-> Len(buf)]

----------------------------------------------------------------------------
(* src/index.js: verify *)

NoRes ==
    [op |-> "none", threw |-> FALSE, error |-> "", value |-> FALSE,
     rec |-> NoRecord, vpayload |-> <<>>, vkey |-> [pub |-> 0],
     dispatched |-> "", exit |-> 0, message |-> ""]

\* verify dispatching to the first registered implementation whatever the
\* envelope's header resolved to
verifyFirstRegistered(p, buf, publicKey, pointOk) ==
    LET r == inspectVarsig(buf)
        algorithm == r.algorithm
        found == algorithm \in DOMAIN cryptoAlgorithms
        impl == cryptoAlgorithms[SIGNATURE_HEADER_TAGS[1][1]]
        out == CapVerify(impl, p, r.signature, publicKey, pointOk)
        base == [NoRes EXCEPT !.op = "verify", !.rec = r, !.vpayload = p,
                              !.vkey = publicKey]
    IN  IF r.threw THEN [base EXCEPT !.threw = TRUE, !.error = r.error]
        ELSE IF ~found
        THEN [base EXCEPT !.threw = TRUE, !.error = TypeErrorUndefined]
        ELSE IF out.threw
        THEN [base EXCEPT !.threw = TRUE, !.error = "capability",
                          !.dispatched = impl.name]
        ELSE [base EXCEPT !.value = out.value, !.dispatched = impl.name]

\* the promise's outcome: rejected with the decoder's or the capability's
\* exception, or fulfilled with the capability's boolean; dispatched names the
\* implementation whose verify was called
verify(p, buf, publicKey, pointOk) ==
    LET r == inspectVarsig(buf)
        algorithm == r.algorithm
        found == algorithm \in DOMAIN cryptoAlgorithms
        impl == cryptoAlgorithms[algorithm]
        out == CapVerify(impl, p, r.signature, publicKey, pointOk)
        base == [NoRes EXCEPT !.op = "verify", !.rec = r, !.vpayload = p,
                              !.vkey = publicKey]
    IN  IF r.threw THEN [base EXCEPT !.threw = TRUE, !.error = r.error]
        ELSE IF ~found
        THEN [base EXCEPT !.threw = TRUE, !.error = TypeErrorUndefined]
        ELSE IF out.threw
        THEN [base EXCEPT !.threw = TRUE, !.error = "capability",
                          !.dispatched = impl.name]
        ELSE [base EXCEPT !.value = out.value, !.dispatched = impl.name]

----------------------------------------------------------------------------
(* bin.js: the verify and inspect commands *)

MsgValid == "Signature is valid"
MsgInvalid == "Invalid signature"
MsgMissing == "Missing --key or --sig"
MsgKeyRead == "Error reading public key"
MsgBadHex == "Invalid hex format"
MsgSigRead == "Error reading signature"
MsgInspectError == "Error inspecting varsig"
MsgInspected == "Varsig Components"
MsgUnhandledRejection == "Unhandled Rejection"
ReadFileError == "Error: ENOENT"

\* process.exit(1) after console.error(msg)
ExitOne(cmd, msg) == [NoRes EXCEPT !.op = cmd, !.exit = 1, !.message = msg]

\* what the --key and --sig options of a verify command can be
KeyArgs == {"ok", "missing", "unreadable", "badhex"}
SigArgs == {"ok", "missing", "unreadable"}

\* the unhandledRejection listener logs and returns: the process then ends
\* when the event loop drains, with exit status 0
unhandledRejection(cmd, r) ==
    [r EXCEPT !.op = cmd, !.exit = 0, !.message = MsgUnhandledRejection]

\* the lines after the await: v is what the promise of verify settled with
verifyReport(cmd, v) ==
    IF v.threw THEN unhandledRejection(cmd, v)
    ELSE IF v.value
    THEN [v EXCEPT !.op = cmd, !.exit = 0, !.message = MsgValid]
    ELSE [v EXCEPT !.op = cmd, !.exit = 1, !.message = MsgInvalid]

\* varsig verify <message> --key <keyArg> --sig <sigArg>; buf is the content
\* of the signature file and publicKey the bytes of the key
cliVerify(message, keyArg, sigArg, buf, publicKey, pointOk) ==
    LET cmd == "cli verify"
    IN  IF keyArg = "missing" \/ sigArg = "missing" THEN ExitOne(cmd, MsgMissing)
        ELSE IF keyArg = "unreadable" THEN ExitOne(cmd, MsgKeyRead)
        ELSE IF keyArg = "badhex" THEN ExitOne(cmd, MsgBadHex)
        ELSE IF sigArg = "unreadable" THEN ExitOne(cmd, MsgSigRead)
        ELSE CHOOSE report \in
                 {verifyReport(cmd, v) :
                      v \in {verify(message, buf, publicKey, pointOk)}} : TRUE

\* varsig inspect <varsig>; readable is whether the argument could be read
cliInspect(readable, buf) ==
    LET cmd == "cli inspect"
        r == inspectVarsig(buf)
    IN  IF ~readable \/ r.threw
        THEN [ExitOne(cmd, MsgInspectError) EXCEPT
                  !.threw = TRUE,
                  !.error = IF readable THEN r.error ELSE ReadFileError,
                  !.rec = IF readable THEN r ELSE NoRecord]
        ELSE [NoRes EXCEPT !.op = cmd, !.rec = r, !.exit = 0,
                           !.message = MsgInspected]

----------------------------------------------------------------------------
(* The state machine: API calls, and the caller's handling of the buffer *)

\* no number has been handed to encodeVarint
NoVr == [stage |-> "none", value |-> 0, bytes |-> << >>, ok |-> FALSE,
         decoded |-> 0, length |-> 0]

NoEnc ==
    [signatureHeaderBytes |-> <<>>, hashAlgorithmBytes |-> <<>>,
     signatureLengthBytes |-> <<>>, encodingInfoBytes |-> <<>>]

Init ==
    /\ payload = <<>>
    /\ cryptoImplementation = [name |-> "none", signatureHeader |-> 0,
                               hashAlgorithm |-> 0]
    /\ privateKey = 0
    /\ signature = <<>>
    /\ enc = NoEnc
    /\ varsig = <<>>
    /\ truncated = FALSE
    /\ edits = 0
    /\ trailing = 0
    /\ replaced = "none"
    /\ res = NoRes
    /\ vr = NoVr
    /\ calls = << >>
    /\ lastStarted = 0

\* await create(payload, cryptoImplementation, privateKey).  The call reads
\* nothing of the state and overwrites all of it, so it is taken from the
\* initial state only: every state it can produce from a later one is
\* produced from there.
Create ==
    /\ res.op = "none" /\ varsig = <<>>
    /\ \E p \in Payloads, impl \in Implementations, sk \in KeyIds :
         LET c == create(p, impl, sk)
         IN  /\ payload' = p
             /\ cryptoImplementation' = impl
             /\ privateKey' = sk
             /\ signature' = c.signature
             /\ enc' = [signatureHeaderBytes |-> c.signatureHeaderBytes,
                        hashAlgorithmBytes |-> c.hashAlgorithmBytes,
                        signatureLengthBytes |-> c.signatureLengthBytes,
                        encodingInfoBytes |-> c.encodingInfoBytes]
             /\ varsig' = c.varsig
             /\ truncated' = FALSE
             /\ edits' = 0
             /\ trailing' = 0
             /\ res' = [NoRes EXCEPT !.op = "create"]
    /\ UNCHANGED <<replaced, vr, calls, lastStarted>>

\* inspectVarsig(varsig)
Inspect ==
    /\ LET r == inspectVarsig(varsig)
       IN  res' = [NoRes EXCEPT !.op = "inspect", !.threw = r.threw,
                                !.error = r.error, !.rec = r]
    /\ UNCHANGED <<payload, cryptoImplementation, privateKey, signature, enc,
                   varsig, truncated, edits, trailing, replaced, vr, calls,
                   lastStarted>>

\* await verify(payload, varsig, publicKey)
Verify ==
    /\ \E p \in Payloads, pk \in PublicKeys, pointOk \in BOOLEAN :
           res' = verify(p, varsig, pk, pointOk)
    /\ UNCHANGED <<payload, cryptoImplementation, privateKey, signature, enc,
                   varsig, truncated, edits, trailing, replaced, vr, calls,
                   lastStarted>>

\* the verify command of the CLI run on the buffer as the signature file
CliVerify ==
    /\ \E keyArg \in KeyArgs, sigArg \in SigArgs :
         \E p \in Payloads, pk \in PublicKeys, pointOk \in BOOLEAN :
           \* a command that stops at its options reads neither message nor key
           /\ (keyArg # "ok" \/ sigArg # "ok")
                  => (p = <<104, 105>> /\ pk = PublicKeyOf(1) /\ pointOk)
           /\ res' = cliVerify(p, keyArg, sigArg, varsig, pk, pointOk)
    /\ UNCHANGED <<payload, cryptoImplementation, privateKey, signature, enc,
                   varsig, truncated, edits, trailing, replaced, vr, calls,
                   lastStarted>>

\* the inspect command of the CLI run on the buffer
CliInspect ==
    /\ \E readable \in BOOLEAN : res' = cliInspect(readable, varsig)
    /\ UNCHANGED <<payload, cryptoImplementation, privateKey, signature, enc,
                   varsig, truncated, edits, trailing, replaced, vr, calls,
                   lastStarted>>

\* length of the header fields of the envelope the last create call returned
HeaderLen ==
    Len(VARSIG_PREFIX) + Len(enc.signatureHeaderBytes) + Len(enc.hashAlgorithmBytes)
    + Len(enc.signatureLengthBytes) + Len(enc.encodingInfoBytes)

\* the caller hands over only the first n bytes of the buffer
Truncate ==
    /\ ~truncated /\ edits = 0 /\ trailing = 0 /\ replaced = "none"
    /\ \E n \in 0..(Len(varsig) - 1) :
           /\ n <= MaxKeep \/ Len(varsig) - n <= MaxDrop
           /\ varsig' = SubSeq(varsig, 1, n)
    /\ truncated' = TRUE
    /\ res' = NoRes
    /\ UNCHANGED <<payload, cryptoImplementation, privateKey, signature, enc,
                   edits, trailing, replaced, vr, calls, lastStarted>>

\* the caller hands over a buffer that differs in one byte of the header
SetByte ==
    /\ edits < MaxEdits /\ trailing = 0 /\ replaced = "none"
    /\ \E i \in 1..Min(Len(varsig), HeaderLen), b \in EditBytes :
           /\ varsig[i] # b
           /\ varsig' = [varsig EXCEPT ![i] = b]
    /\ edits' = edits + 1
    /\ res' = NoRes
    /\ UNCHANGED <<payload, cryptoImplementation, privateKey, signature, enc,
                   truncated, trailing, replaced, vr, calls, lastStarted>>

\* the caller hands over a buffer with bytes after the envelope
AppendTrailing ==
    /\ trailing < MaxTrailing /\ ~truncated /\ edits = 0 /\ replaced = "none"
    /\ \E b \in TrailBytes : varsig' = Append(varsig, b)
    /\ trailing' = trailing + 1
    /\ res' = NoRes
    /\ UNCHANGED <<payload, cryptoImplementation, privateKey, signature, enc,
                   truncated, edits, replaced, vr, calls, lastStarted>>

\* offsets of the hashAlgorithm and encodingInfo fields in the envelope the
\* last create call returned: <<start, end>>
FieldSpan(field) ==
    LET hashStart == Len(VARSIG_PREFIX) + Len(enc.signatureHeaderBytes)
        hashEnd == hashStart + Len(enc.hashAlgorithmBytes)
        encodingStart == hashEnd + Len(enc.signatureLengthBytes)
    IN  IF field = "hashAlgorithm" THEN <<hashStart, hashEnd>>
        ELSE <<encodingStart, encodingStart + Len(enc.encodingInfoBytes)>>

\* the caller hands over the envelope with its hashAlgorithm or encodingInfo
\* field replaced by the encoding of another number
ReplaceField ==
    /\ cryptoImplementation \in Implementations
    /\ ~truncated /\ edits = 0 /\ trailing = 0 /\ replaced = "none"
    /\ \E field \in {"hashAlgorithm", "encodingInfo"}, v \in ReplacementValues :
           /\ encodeVarint(v) # SubSeq(varsig, FieldSpan(field)[1] + 1,
                                       FieldSpan(field)[2])
           /\ varsig' = SubSeq(varsig, 1, FieldSpan(field)[1])
                         \o encodeVarint(v)
                         \o SubSeq(varsig, FieldSpan(field)[2] + 1, Len(varsig))
           /\ replaced' = field
    /\ res' = NoRes
    /\ UNCHANGED <<payload, cryptoImplementation, privateKey, signature, enc,
                   truncated, edits, trailing, vr, calls, lastStarted>>

Next ==
    \/ Create \/ Inspect \/ Verify
    \/ Truncate \/ SetByte \/ AppendTrailing \/ ReplaceField

Spec == Init /\ [][Next]_vars

----------------------------------------------------------------------------
(* The command line: a verify or inspect command run on a signature file *)

\* implementations the create command of the CLI can write a file with, and
\* one it cannot, for a file written by another program
CliImplementations ==
    {ed25519Implementation, blsImplementation, customImplementation}

\* content of a file handed to a command: the first n bytes of the envelope
\* create returns, which is all of it for n = Len
SigFile(p, impl, sk, n) == SubSeq(create(p, impl, sk).varsig, 1, n)

\* lengths of the files: the whole envelope, or at most MaxKeep bytes of it
FileLengths(impl) ==
    LET whole == Len(create(<<>>, impl, 1).varsig)
    IN  (0..Min(MaxKeep, whole)) \cup {whole}

InitCli ==
    /\ payload = <<>>
    /\ cryptoImplementation = [name |-> "none", signatureHeader |-> 0,
                               hashAlgorithm |-> 0]
    /\ privateKey = 0
    /\ signature = <<>>
    /\ enc = NoEnc
    /\ varsig = <<>>
    /\ truncated = FALSE
    /\ edits = 0
    /\ trailing = 0
    /\ replaced = "none"
    /\ res = NoRes
    /\ vr = NoVr
    /\ calls = << >>
    /\ lastStarted = 0

\* a signature file is written before the commands run on it; an empty file
\* is what the commands see when none was
WriteSigFile ==
    /\ res.op = "none" /\ varsig = <<>>
    /\ \E p \in Payloads, impl \in CliImplementations, sk \in KeyIds :
         \E n \in FileLengths(impl) : varsig' = SigFile(p, impl, sk, n)
    /\ res' = [NoRes EXCEPT !.op = "file"]
    /\ UNCHANGED <<payload, cryptoImplementation, privateKey, signature, enc,
                   truncated, edits, trailing, replaced, vr, calls, lastStarted>>

NextCli == WriteSigFile \/ CliVerify \/ CliInspect

SpecCli == InitCli /\ [][NextCli]_vars

----------------------------------------------------------------------------
(* encodeVarint and decodeVarintAt on their own *)

InitVarint ==
    /\ payload = <<>>
    /\ cryptoImplementation = [name |-> "none", signatureHeader |-> 0,
                               hashAlgorithm |-> 0]
    /\ privateKey = 0
    /\ signature = <<>>
    /\ enc = NoEnc
    /\ varsig = <<>>
    /\ truncated = FALSE
    /\ edits = 0
    /\ trailing = 0
    /\ replaced = "none"
    /\ res = NoRes
    /\ \E v \in VarintInputs : vr = [NoVr EXCEPT !.stage = "input", !.value = v]
    /\ calls = << >>
    /\ lastStarted = 0

\* bytes = encodeVarint(value)
EncodeVarint ==
    /\ vr.stage = "input"
    /\ vr' = [vr EXCEPT !.stage = "encoded", !.bytes = encodeVarint(vr.value)]
    /\ UNCHANGED <<payload, cryptoImplementation, privateKey, signature, enc,
                   varsig, truncated, edits, trailing, replaced, res, calls,
                   lastStarted>>

\* { value, length } = decodeVarintAt(bytes, 0)
DecodeVarint ==
    /\ vr.stage = "encoded"
    /\ \E d \in {decodeVarintAt(vr.bytes, 0)} :
           vr' = [vr EXCEPT !.stage = "decoded", !.ok = d.ok,
                            !.decoded = d.value, !.length = d.length]
    /\ UNCHANGED <<payload, cryptoImplementation, privateKey, signature, enc,
                   varsig, truncated, edits, trailing, replaced, res, calls,
                   lastStarted>>

NextVarint == EncodeVarint \/ DecodeVarint

SpecVarint == InitVarint /\ [][NextVarint]_vars

----------------------------------------------------------------------------
(* create and verify as async functions: a call runs to its await, is       *)
(* suspended while the capability's promise is pending, and runs to its end *)
(* when the promise settles; other calls run in between                     *)

CallIds == 1..NumCalls

\* frame of a call: its arguments, the constants it holds across the await,
\* and what its promise settled with
NoCall ==
    [kind |-> "none", pc |-> "idle", payload |-> <<>>,
     impl |-> [name |-> "none", signatureHeader |-> 0, hashAlgorithm |-> 0],
     privateKey |-> 0, publicKey |-> [pub |-> 0], buf |-> <<>>,
     signatureHeaderBytes |-> <<>>, hashAlgorithmBytes |-> <<>>,
     signature |-> <<>>, algorithm |-> "", decoded |-> FALSE, invoked |-> 0,
     overlapped |-> FALSE, threw |-> FALSE, error |-> "", value |-> FALSE,
     varsig |-> <<>>]

\* implementations and buffers the concurrent calls are given
ConcImplementations == {ed25519Implementation, customImplementation}
ConcKey == 1
ConcBuffers ==
    LET e == create(<<104, 105>>, ed25519Implementation, ConcKey).varsig
    IN  { e,                                     \* a valid envelope
          SubSeq(e, 1, 2),                       \* its header cut short
          SubSeq(e, 1, Len(e) - 1),              \* its signature cut short
          create(<<104, 105>>, customImplementation, ConcKey).varsig }

\* some other call is suspended at its await
OthersInFlight(c) ==
    \E d \in CallIds \ {c} : calls[d].pc \in {"awaitSign", "awaitVerify"}

\* create up to its await: the two header encodings, then sign is called
createStart(p, impl, sk) ==
    [NoCall EXCEPT !.kind = "create", !.pc = "awaitSign", !.payload = p,
                   !.impl = impl, !.privateKey = sk,
                   !.signatureHeaderBytes = encodeVarint(getSignatureHeader(impl)),
                   !.hashAlgorithmBytes = encodeVarint(getHashAlgorithm(impl)),
                   !.invoked = 1]

\* create after its await: the envelope is assembled from the constants of
\* the call and the signature the promise resolved with
createAfterAwait(signatureHeaderBytes, hashAlgorithmBytes, sig) ==
    LET prefix == VARSIG_PREFIX
        signatureLengthBytes == encodeVarint(Len(sig))
        encodingInfoBytes == encodeVarint(ENCODING_INFO)
        totalLength == Len(prefix) + Len(signatureHeaderBytes)
                       + Len(hashAlgorithmBytes) + Len(signatureLengthBytes)
                       + Len(encodingInfoBytes) + Len(sig)
        o1 == Len(prefix)
        o2 == o1 + Len(signatureHeaderBytes)
        o3 == o2 + Len(hashAlgorithmBytes)
        o4 == o3 + Len(signatureLengthBytes)
        o5 == o4 + Len(encodingInfoBytes)
    IN  SetAt(SetAt(SetAt(SetAt(SetAt(SetAt(Zeroes(totalLength), prefix, 0),
                                      signatureHeaderBytes, o1),
                                hashAlgorithmBytes, o2),
                          signatureLengthBytes, o3),
                    encodingInfoBytes, o4),
              sig, o5)

\* a create whose header encoding lives in one variable of the module: the
\* call sees what the call entered last has written
signatureHeaderBytesOfLastStarted(c) == calls[lastStarted].signatureHeaderBytes

\* const signatureHeaderBytes of call c
signatureHeaderBytesOf(c) == calls[c].signatureHeaderBytes

\* a verify that answers false when the envelope cannot be decoded
verifyStartSwallow(p, buf, publicKey, r) ==
    LET base == [NoCall EXCEPT !.kind = "verify", !.payload = p, !.buf = buf,
                               !.publicKey = publicKey]
    IN  IF r.threw THEN [base EXCEPT !.pc = "done"]
        ELSE IF r.algorithm \notin DOMAIN cryptoAlgorithms
        THEN [base EXCEPT !.pc = "done", !.decoded = TRUE, !.threw = TRUE,
                          !.error = TypeErrorUndefined]
        ELSE [base EXCEPT !.pc = "awaitVerify", !.decoded = TRUE,
                          !.algorithm = r.algorithm,
                          !.signature = r.signature, !.invoked = 1]

\* verify up to its await; r is what inspectVarsig(buf) returned or threw.
\* An exception rejects the promise of the call at once.
verifyStart(p, buf, publicKey, r) ==
    LET base == [NoCall EXCEPT !.kind = "verify", !.payload = p, !.buf = buf,
                               !.publicKey = publicKey]
    IN  IF r.threw
        THEN [base EXCEPT !.pc = "done", !.threw = TRUE, !.error = r.error]
        ELSE IF r.algorithm \notin DOMAIN cryptoAlgorithms
        THEN [base EXCEPT !.pc = "done", !.decoded = TRUE, !.threw = TRUE,
                          !.error = TypeErrorUndefined]
        ELSE [base EXCEPT !.pc = "awaitVerify", !.decoded = TRUE,
                          !.algorithm = r.algorithm,
                          !.signature = r.signature, !.invoked = 1]

InitConc ==
    /\ payload = <<>>
    /\ cryptoImplementation = [name |-> "none", signatureHeader |-> 0,
                               hashAlgorithm |-> 0]
    /\ privateKey = 0
    /\ signature = <<>>
    /\ enc = NoEnc
    /\ varsig = <<>>
    /\ truncated = FALSE
    /\ edits = 0
    /\ trailing = 0
    /\ replaced = "none"
    /\ res = NoRes
    /\ vr = NoVr
    /\ calls = [c \in CallIds |-> NoCall]
    /\ lastStarted = 0

\* create(payload, cryptoImplementation, privateKey) is entered
CreateCall(c) ==
    /\ calls[c].pc = "idle"
    /\ \E p \in Payloads, impl \in ConcImplementations :
           calls' = [calls EXCEPT ![c] =
                        [createStart(p, impl, ConcKey) EXCEPT
                             !.overlapped = OthersInFlight(c)]]
    /\ lastStarted' = c
    /\ UNCHANGED <<payload, cryptoImplementation, privateKey, signature, enc,
                   varsig, truncated, edits, trailing, replaced, res, vr>>

\* the promise of sign resolves and create runs to its return
CreateResume(c) ==
    /\ calls[c].pc = "awaitSign"
    /\ \E sig \in {Sign(calls[c].impl, calls[c].payload, calls[c].privateKey)} :
           calls' = [calls EXCEPT ![c].pc = "done", ![c].signature = sig,
                        ![c].varsig =
                            createAfterAwait(signatureHeaderBytesOf(c),
                                             calls[c].hashAlgorithmBytes, sig)]
    /\ UNCHANGED <<payload, cryptoImplementation, privateKey, signature, enc,
                   varsig, truncated, edits, trailing, replaced, res, vr,
                   lastStarted>>

\* verify(payload, varsig, publicKey) is entered
VerifyCall(c) ==
    /\ calls[c].pc = "idle"
    /\ \E p \in Payloads, buf \in ConcBuffers :
         \E r \in {inspectVarsig(buf)} :
           calls' = [calls EXCEPT ![c] =
                        [verifyStart(p, buf, PublicKeyOf(ConcKey), r) EXCEPT
                             !.overlapped = OthersInFlight(c)]]
    /\ lastStarted' = c
    /\ UNCHANGED <<payload, cryptoImplementation, privateKey, signature, enc,
                   varsig, truncated, edits, trailing, replaced, res, vr>>

\* the promise of the capability settles and verify settles with it
VerifyResume(c) ==
    /\ calls[c].pc = "awaitVerify"
    /\ \E out \in {CapVerify(cryptoAlgorithms[calls[c].algorithm],
                            calls[c].payload, calls[c].signature,
                            calls[c].publicKey, TRUE)} :
           calls' = [calls EXCEPT ![c].pc = "done", ![c].threw = out.threw,
                        ![c].error = IF out.threw THEN "capability" ELSE "",
                        ![c].value = out.value]
    /\ UNCHANGED <<payload, cryptoImplementation, privateKey, signature, enc,
                   varsig, truncated, edits, trailing, replaced, res, vr,
                   lastStarted>>

NextConc ==
    \E c \in CallIds :
        CreateCall(c) \/ CreateResume(c) \/ VerifyCall(c) \/ VerifyResume(c)

SpecConc == InitConc /\ [][NextConc]_vars

----------------------------------------------------------------------------
(* Definitions the properties are stated with *)

\* an envelope exactly as create returned it
Pristine ==
    /\ cryptoImplementation \in Implementations
    /\ ~truncated /\ edits = 0 /\ trailing = 0 /\ replaced = "none"

\* the four header fields of the buffer the caller holds, read in wire order
HeaderField == decodeVarintAt(varsig, Len(VARSIG_PREFIX))
HashField == decodeVarintAt(varsig, HeaderField.nextOffset)
LengthField == decodeVarintAt(varsig, HashField.nextOffset)
EncodingField == decodeVarintAt(varsig, LengthField.nextOffset)

FieldsDecode ==
    HeaderField.ok /\ HashField.ok /\ LengthField.ok /\ EncodingField.ok

\* bytes of the buffer after the encodingInfo field
Remaining == Len(varsig) - EncodingField.nextOffset

RegisteredTags == {TAG_ED25519, TAG_RSA, TAG_BLS}

\* the buffer without the bytes the caller appended
Envelope == SubSeq(varsig, 1, Len(varsig) - trailing)

\* the buffer ends inside the prefix or inside one of the four varint fields:
\* fewer than four bytes after the prefix lack the continuation bit
EndsInsideHeader ==
    Cardinality({i \in (Len(VARSIG_PREFIX) + 1)..Len(varsig) : varsig[i] < 128}) < 4

ExpectedHeaderHex(impl) ==
    CASE impl.name = "ed25519" -> "ed"
      [] impl.name = "rsa" -> "1205"
      [] impl.name = "bls" -> "1309"

----------------------------------------------------------------------------
(* Properties *)

\* C1: whenever sign succeeds, create returns exactly
\* prefix(0x34) || varint(header tag) || varint(hash tag) || varint(len(signature))
\* || varint(0x5f) || signature, with no gaps and no extra bytes, so its length
\* is the sum of the lengths of the six parts.
C1_CreateWireFormat ==
    res.op = "create" =>
        LET h == EncodeGroups(getSignatureHeader(cryptoImplementation))
            a == EncodeGroups(getHashAlgorithm(cryptoImplementation))
            l == EncodeGroups(Len(signature))
            e == EncodeGroups(95)
        IN  /\ signature = Sign(cryptoImplementation, payload, privateKey)
            /\ varsig = <<52>> \o h \o a \o l \o e \o signature
            /\ Len(varsig) = 1 + Len(h) + Len(a) + Len(l) + Len(e) + Len(signature)

C1_Witness ==
    /\ res.op = "create"
    /\ cryptoImplementation.name = "rsa"
    /\ Len(enc.signatureLengthBytes) = 2

\* C2: for every built-in algorithm and payload, inspectVarsig of the envelope
\* create returned succeeds and reports the algorithm's header tag and hash
\* tag, encodingInfo 5f, the algorithm's registered name, and the signature
\* sign returned, byte for byte (64 bytes for Ed25519, 256 for RSA, 96 for BLS).
C2_RoundTrip ==
    (res.op = "inspect" /\ Pristine /\ cryptoImplementation \in BuiltIns) =>
        /\ ~res.threw
        /\ res.rec.signatureHeader = ExpectedHeaderHex(cryptoImplementation)
        /\ res.rec.hashAlgorithm = "12"
        /\ res.rec.encodingInfo = "5f"
        /\ res.rec.algorithm = cryptoImplementation.name
        /\ res.rec.signature = signature
        /\ Len(res.rec.signature) =
              (CASE cryptoImplementation.name = "ed25519" -> 64
                 [] cryptoImplementation.name = "rsa" -> 256
                 [] cryptoImplementation.name = "bls" -> 96)

C2_Witness ==
    /\ res.op = "inspect" /\ Pristine
    /\ cryptoImplementation.name = "rsa"
    /\ res.rec.signatureHeader = "1205"
    /\ Len(res.rec.signature) = 256

\* C3: with sign/verify an ideal signature scheme, verify on the envelope
\* create returned for a built-in algorithm answers true when the payload is
\* the signed one and the public key belongs to the signing key, and false
\* when the payload differs or the key does not match.
C3_VerifyCorrect ==
    (res.op = "verify" /\ Pristine /\ cryptoImplementation \in BuiltIns) =>
        /\ ~res.threw
        /\ res.value = (/\ res.vpayload = payload
                        /\ res.vkey = PublicKeyOf(privateKey))

C3_Witness ==
    /\ res.op = "verify" /\ Pristine
    /\ cryptoImplementation.name = "bls"
    /\ res.vpayload = payload /\ res.vkey = PublicKeyOf(privateKey)
    /\ res.value = TRUE

\* C4: inspectVarsig fails (TruncatedSignature) whenever fewer bytes than the
\* declared signatureLength remain after the encodingInfo field; it never
\* returns a record whose signature is shorter than the declared length.
C4_TruncatedSignatureRejected ==
    (res.op = "inspect" /\ FieldsDecode) =>
        /\ Remaining < LengthField.value => res.threw
        /\ ~res.threw => Len(res.rec.signature) = LengthField.value

\* C5: a buffer whose leading byte is not 0x34 is rejected (InvalidPrefix):
\* inspectVarsig returns no record for it and verify does not answer true.
C5_InvalidPrefixRejected ==
    (res.op \in {"inspect", "verify"} /\ Slice(varsig, 0, 1) # <<52>>) =>
        res.threw

\* C6: when the decoded signatureHeader is none of the registered tags,
\* inspectVarsig and verify raise the unknown-algorithm error; no record is
\* returned, no implementation's verify is called, and the error comes before
\* the hashAlgorithm, signatureLength and encodingInfo fields are decoded.
C6_UnknownTag ==
    (/\ res.op \in {"inspect", "verify"}
     /\ HeaderField.ok
     /\ HeaderField.value \notin RegisteredTags) =>
        /\ res.threw
        /\ res.error = UnknownHeaderError
        /\ res.rec.decodes = 1
        /\ res.dispatched = ""

C6_Witness ==
    /\ res.op = "verify"
    /\ cryptoImplementation.name = "ed25519"
    /\ edits = 1
    /\ HeaderField.ok
    /\ HeaderField.value \notin RegisteredTags
    /\ Len(varsig) > HeaderField.nextOffset

\* C7 as stated: under the encoding create uses, the Ed25519 tag 0xed is 1
\* byte, the RSA tag 0x1205 and the BLS tag 0x1309 are 2 bytes each, and the
\* SHA-256 tag 0x12 is 1 byte.
C7_TagWidthsAsStated ==
    cryptoImplementation \in BuiltIns =>
        /\ Len(enc.hashAlgorithmBytes) = 1
        /\ Len(enc.signatureHeaderBytes) =
              (CASE cryptoImplementation.name = "ed25519" -> 1
                 [] cryptoImplementation.name = "rsa" -> 2
                 [] cryptoImplementation.name = "bls" -> 2)

\* C7 amended: the Ed25519 tag 0xed is 2 bytes (ed 01), as are the RSA tag
\* 0x1205 (85 24) and the BLS tag 0x1309 (89 26); the SHA-256 tag 0x12 is 1 byte.
C7_TagWidths ==
    cryptoImplementation \in BuiltIns =>
        /\ enc.hashAlgorithmBytes = <<18>>
        /\ enc.signatureHeaderBytes =
              (CASE cryptoImplementation.name = "ed25519" -> <<237, 1>>
                 [] cryptoImplementation.name = "rsa" -> <<133, 36>>
                 [] cryptoImplementation.name = "bls" -> <<137, 38>>)

C7_Witness ==
    /\ res.op = "create"
    /\ cryptoImplementation.name = "ed25519"
    /\ Len(enc.signatureHeaderBytes) = 2

\* C8: for an Ed25519 varsig with a 64-byte signature, inspectVarsig reports
\* prefix 34, signatureHeader ed, hashAlgorithm 12, signatureByteLength 40,
\* encodingInfo 5f, a signature of 64 bytes and totalLength 70.
C8_Ed25519Scenario ==
    (/\ res.op = "inspect" /\ Pristine
     /\ cryptoImplementation.name = "ed25519"
     /\ Len(signature) = 64) =>
        /\ ~res.threw
        /\ res.rec.prefix = "34"
        /\ res.rec.signatureHeader = "ed"
        /\ res.rec.hashAlgorithm = "12"
        /\ res.rec.signatureByteLength = "40"
        /\ res.rec.encodingInfo = "5f"
        /\ Len(res.rec.signature) = 64
        /\ res.rec.totalLength = 70

C8_Witness ==
    /\ res.op = "inspect" /\ Pristine
    /\ cryptoImplementation.name = "ed25519"
    /\ Len(signature) = 64
    /\ res.rec.totalLength = 70

\* C9: for a caller-supplied implementation whose header tag is none of the
\* built-in tags, the envelope create returns is resolved by inspectVarsig to
\* that implementation and verify dispatches to its verify.
C9_CustomResolved ==
    (Pristine /\ cryptoImplementation.name = "custom") =>
        /\ res.op = "inspect" => ~res.threw /\ res.rec.algorithm = "custom"
        /\ res.op = "verify" => ~res.threw /\ res.dispatched = "custom"

\* C10: for every structurally valid envelope (the four fields decode, the
\* header is registered and the signature has its declared length), verify
\* answers the boolean of the resolved implementation's verify; a failed
\* cryptographic check is the value false and never an error.
C10_VerifyNeverThrows ==
    (/\ res.op = "verify"
     /\ ~res.rec.threw
     /\ Len(res.rec.signature) = LengthField.value) =>
        /\ ~res.threw
        /\ res.dispatched = res.rec.algorithm
        /\ res.value = IdealVerify(cryptoAlgorithms[res.rec.algorithm],
                                   res.vpayload, res.rec.signature, res.vkey)

\* C11: a CLI command that fails ends with a non-zero exit status, and the
\* verify command given a varsig file that cannot be decoded reports an error
\* other than the one for a signature that does not verify
C11_CliFailureExitsNonZero ==
    (/\ res.op \in {"cli verify", "cli inspect"}
     /\ res.threw \/ res.message \notin {MsgValid, MsgInspected})
        => /\ res.exit # 0
           /\ (res.threw => res.message # MsgInvalid)

\* C12 as stated: every buffer that ends inside the prefix or inside one of
\* the four varint fields makes inspectVarsig raise the malformed-varint error
C12_TruncatedHeaderAsStated ==
    (res.op = "inspect" /\ EndsInsideHeader)
        => res.threw /\ res.error = RangeErrorVarint

\* C12: a buffer that ends inside the prefix or inside one of the four varint
\* fields makes inspectVarsig raise an error and return no record; the error
\* is the malformed-varint one unless the header field is complete and holds
\* an unregistered tag, which is reported first
C12_TruncatedHeader ==
    (res.op = "inspect" /\ EndsInsideHeader)
        => /\ res.threw
           /\ res.rec = InspectThrow(res.error, res.rec.decodes)
           /\ res.error = IF HeaderField.ok /\ HeaderField.value \notin RegisteredTags
                          THEN UnknownHeaderError
                          ELSE RangeErrorVarint

C12_Witness ==
    /\ res.op = "inspect" /\ EndsInsideHeader
    /\ truncated /\ Len(varsig) >= 4
    /\ HeaderField.ok /\ HeaderField.value \in RegisteredTags
    /\ res.error = RangeErrorVarint

\* C13: decodeVarintAt(encodeVarint(v), 0) yields the value v and a consumed
\* length equal to the length of the encoding, and every byte of the encoding
\* but the last has the high bit set
C13_VarintRoundTrip ==
    /\ vr.stage \in {"encoded", "decoded"}
           => /\ Len(vr.bytes) >= 1
              /\ \A i \in 1..(Len(vr.bytes) - 1) : vr.bytes[i] \in 128..255
              /\ vr.bytes[Len(vr.bytes)] \in 0..127
    /\ vr.stage = "decoded"
           => /\ vr.ok
              /\ vr.decoded = vr.value
              /\ vr.length = Len(vr.bytes)

C13_Witness ==
    /\ vr.stage = "decoded" /\ vr.value = 16384
    /\ vr.bytes = <<128, 128, 1>> /\ vr.decoded = 16384 /\ vr.length = 3

\* C14: bytes after a valid envelope are ignored: inspectVarsig returns the
\* fields it returns for the envelope alone, verify settles as it does for the
\* envelope alone, and totalLength is the length of the whole input
C14_TrailingIgnored ==
    (trailing > 0 /\ cryptoImplementation \in BuiltIns)
        => /\ res.op = "inspect"
                 => /\ ~res.threw
                    /\ res.rec = [inspectVarsig(Envelope) EXCEPT
                                      !.totalLength = Len(Envelope) + trailing]
                    /\ res.rec.totalLength = Len(varsig)
           /\ res.op = "verify"
                 => \A pointOk \in BOOLEAN :
                        res = [verify(res.vpayload, Envelope, res.vkey, pointOk)
                                  EXCEPT !.rec.totalLength = Len(varsig)]

C14_Witness ==
    /\ trailing > 0 /\ cryptoImplementation = rsaImplementation
    /\ res.op = "verify" /\ res.value
    /\ Len(res.rec.signature) = RsaSigLen
    /\ res.rec.totalLength = Len(Envelope) + 1

\* C15: when the buffer holds enough bytes, the signature is the decoded
\* signatureLength bytes that follow the encodingInfo field, and
\* signatureByteLength is the hex of the raw bytes of the length field
C15_SlicedByDecodedLength ==
    (res.op = "inspect" /\ ~res.threw /\ Remaining >= LengthField.value)
        => /\ Len(res.rec.signature) = LengthField.value
           /\ res.rec.signature =
                  SubSeq(varsig, EncodingField.nextOffset + 1,
                         EncodingField.nextOffset + LengthField.value)
           /\ res.rec.signatureByteLength =
                  toStringHex(SubSeq(varsig, HashField.nextOffset + 1,
                                     LengthField.nextOffset))
           /\ (LengthField.value = Ed25519SigLen /\ LengthField.length = 1)
                  => res.rec.signatureByteLength = "40"
           /\ (LengthField.value = RsaSigLen /\ LengthField.length = 2)
                  => res.rec.signatureByteLength = "8002"

C15_Witness ==
    /\ res.op = "inspect" /\ ~res.threw
    /\ cryptoImplementation = rsaImplementation /\ trailing > 0
    /\ LengthField.length = 2 /\ Len(res.rec.signature) = RsaSigLen
    /\ res.rec.signatureByteLength = "8002"

\* C16: the name inspectVarsig resolves is that of the first entry of the
\* tag table, in the order ed25519, rsa, bls, whose tag equals the decoded
\* header value; the tags of the table are pairwise distinct, so that entry
\* is the only one, and a tag without an entry resolves to no name
C16_FirstMatchLookup ==
    /\ \A i, j \in 1..Len(SIGNATURE_HEADER_TAGS) :
           i # j => SIGNATURE_HEADER_TAGS[i][2] # SIGNATURE_HEADER_TAGS[j][2]
    /\ <<SIGNATURE_HEADER_TAGS[1][1], SIGNATURE_HEADER_TAGS[2][1],
          SIGNATURE_HEADER_TAGS[3][1]>> = <<"ed25519", "rsa", "bls">>
    /\ (res.op \in {"inspect", "verify"} /\ HeaderField.ok)
           => LET matches == {i \in 1..Len(SIGNATURE_HEADER_TAGS) :
                                SIGNATURE_HEADER_TAGS[i][2] = HeaderField.value}
              IN  IF matches = {}
                  THEN res.rec.threw /\ res.rec.error = UnknownHeaderError
                  ELSE /\ Cardinality(matches) = 1
                       /\ res.rec.error # UnknownHeaderError
                       /\ ~res.rec.threw =>
                              \E i \in matches :
                                  /\ \A j \in matches : i <= j
                                  /\ res.rec.algorithm = SIGNATURE_HEADER_TAGS[i][1]

C16_Witness ==
    /\ res.op = "inspect" /\ ~res.threw
    /\ HeaderField.value = TAG_BLS /\ res.rec.algorithm = "bls"
    /\ res.rec.algorithm # SIGNATURE_HEADER_TAGS[1][1]

\* C17: when inspectVarsig fails on the bytes given to verify, verify fails
\* with that error and no verify capability is invoked; a capability is
\* invoked at most once per call, and only once the envelope is decoded
C17_DecodeBeforeDispatch ==
    \A c \in DOMAIN calls :
        calls[c].kind = "verify"
            => /\ calls[c].invoked <= 1
               /\ calls[c].invoked = 1 => calls[c].decoded
               /\ \E r \in {inspectVarsig(calls[c].buf)} :
                      /\ calls[c].decoded = ~r.threw
                      /\ r.threw => /\ calls[c].pc = "done"
                                    /\ calls[c].threw
                                    /\ calls[c].error = r.error
                                    /\ calls[c].invoked = 0

C17_Witness ==
    /\ \E c \in DOMAIN calls :
           /\ calls[c].kind = "verify" /\ calls[c].pc = "done"
           /\ calls[c].error = UnknownHeaderError /\ calls[c].invoked = 0
    /\ \E c \in DOMAIN calls :
           /\ calls[c].kind = "verify" /\ calls[c].pc = "done"
           /\ calls[c].invoked = 1 /\ calls[c].value

\* C18: whatever ran between the entry of a call and its end, a call that has
\* ended has the result the same call gives when it runs alone
C18_NoInterference ==
    \A c \in DOMAIN calls :
        calls[c].pc = "done"
            => /\ calls[c].kind = "create"
                     => calls[c].varsig =
                            create(calls[c].payload, calls[c].impl,
                                   calls[c].privateKey).varsig
               /\ calls[c].kind = "verify"
                     => \E alone \in {verify(calls[c].payload, calls[c].buf,
                                             calls[c].publicKey, TRUE)} :
                            /\ calls[c].threw = alone.threw
                            /\ calls[c].error = alone.error
                            /\ calls[c].value = alone.value

C18_Witness ==
    \E c, d \in DOMAIN calls :
        /\ c # d /\ calls[c].pc = "done" /\ calls[d].pc = "done"
        /\ calls[c].kind = "create" /\ calls[d].kind = "create"
        /\ calls[c].impl # calls[d].impl
        /\ calls[d].overlapped /\ lastStarted = d
        /\ calls[c].varsig # calls[d].varsig

\* C19: every name of the tag table has an implementation in cryptoAlgorithms
\* whose getSignatureHeader() is the tag stored under that name, and when
\* inspectVarsig succeeds inside verify the implementation verify calls is the
\* one whose header tag is the envelope's signatureHeader
C19_RegistryConsistent ==
    /\ \A i \in 1..Len(SIGNATURE_HEADER_TAGS) :
           /\ SIGNATURE_HEADER_TAGS[i][1] \in DOMAIN cryptoAlgorithms
           /\ getSignatureHeader(cryptoAlgorithms[SIGNATURE_HEADER_TAGS[i][1]])
                  = SIGNATURE_HEADER_TAGS[i][2]
    /\ (res.op = "verify" /\ ~res.rec.threw)
           => /\ res.error # TypeErrorUndefined
              /\ res.dispatched = res.rec.algorithm
              /\ res.dispatched \in DOMAIN cryptoAlgorithms
              /\ getSignatureHeader(cryptoAlgorithms[res.dispatched])
                     = HeaderField.value
              /\ \A impl \in BuiltIns :
                     impl.name = res.dispatched
                         <=> getSignatureHeader(impl) = HeaderField.value

C19_Witness ==
    /\ res.op = "verify" /\ ~res.rec.threw /\ ~res.threw
    /\ res.dispatched = "rsa" /\ HeaderField.value = TAG_RSA
    /\ cryptoImplementation = rsaImplementation /\ res.value

\* C20: an envelope of a built-in implementation whose hashAlgorithm or
\* encodingInfo field is replaced by another well-formed varint is decoded to
\* the same signature and algorithm, and verify settles as for the envelope
\* create returned
C20_InformationalFieldsUnchecked ==
    (replaced # "none" /\ cryptoImplementation \in BuiltIns)
        => /\ res.op \in {"inspect", "verify"}
                 => /\ ~res.rec.threw
                    /\ res.rec.signature = signature
                    /\ res.rec.algorithm = cryptoImplementation.name
           /\ res.op = "verify"
                 => \E original \in {verify(res.vpayload,
                                            create(payload, cryptoImplementation,
                                                   privateKey).varsig,
                                            res.vkey, TRUE)} :
                        /\ res.threw = original.threw
                        /\ res.error = original.error
                        /\ res.value = original.value
                        /\ res.dispatched = original.dispatched

C20_Witness ==
    /\ replaced = "hashAlgorithm" /\ cryptoImplementation = ed25519Implementation
    /\ HashField.value = 300 /\ HashField.length = 2
    /\ res.op = "verify" /\ res.value
    /\ res.rec.hashAlgorithm = "12c" /\ res.rec.signature = signature

====
